---- MODULE Spec2Model ----
(***************************************************************************)
(* Model of the churn-prediction batch loader: database.py (connection     *)
(* test) and main.py (load_and_validate_csv, insert_data_to_db, main).     *)
(*                                                                         *)
(* The CSV file, the batch size handed to insert_data_to_db and the        *)
(* behaviour of the store (reachable or not, which appends it rejects) are *)
(* the inputs.  Every call on the store (a SELECT, a multi-row append, a   *)
(* single-row append) is one step, and is written to the history variable  *)
(* calls.                                                                  *)
(*                                                                         *)
(* Cells of the raw file are strings ("" is an empty field).  A cell of a  *)
(* DataFrame is a sequence of length <= 1: <<>> is NaN, <<v>> the value v. *)
(* Probabilities are kept in tenths (0.5 is 5) so that they stay integers. *)
(***************************************************************************)
EXTENDS Integers, Sequences, FiniteSets, TLC

\* Longest input file (data rows) that is explored.
MaxRows == 4
\* Largest small batch_size that is explored besides the default.
MaxBatchSize == 2
\* batch_size as main() sets it.
DefaultBatchSize == 1000

VARIABLES
    csv_columns,     \* header of the input file
    csv_rows,        \* data rows of the input file, raw strings
    batch_size,      \* the batch_size argument of insert_data_to_db
    reachable,       \* whether the store accepts connections during the run
    readable,        \* whether SELECT on CustomerPredictions succeeds once connected
    pc,              \* position of the single thread of control
    testResult,      \* what test_connection_CustomerPredictions_db returned to main
    df,              \* the DataFrame returned by load_and_validate_csv
    removed,         \* initial_count - final_count
    prob_issues,     \* rows with a probability outside [0, 1]
    i,               \* loop variable of the batch loop (0-based offset)
    j,               \* position in df of the row the fallback loop is at
    total_inserted,
    errors,
    calls,           \* history: every call made on the store, in order
    stored,          \* index labels of the rows appended to CustomerPredictions
    raised,          \* the exception that reached main's handlers, or "none"
    returned,        \* return value of insert_data_to_db, <<>> until it returns
    result           \* return value of main: "None" until it returns

vars == <<csv_columns, csv_rows, batch_size, reachable, readable, pc, testResult,
          df, removed, prob_issues, i, j, total_inserted, errors, calls, stored,
          raised, returned, result>>

NaN == <<>>

Min(a, b) == IF a <= b THEN a ELSE b

RECURSIVE SeqsUpTo(_, _)
SeqsUpTo(S, n) ==
    IF n = 0 THEN {<<>>}
    ELSE LET shorter == SeqsUpTo(S, n - 1)
         IN  shorter \cup {Append(s, x) : s \in {t \in shorter : Len(t) = n - 1}, x \in S}

----------------------------------------------------------------------------
(* The input file *)

required_columns ==
    {"CustomerID", "LR_Prediction", "LR_Probability", "Actual_Churn",
     "Risk_Category", "XGB_Prediction", "XGB_Probability", "XGB_Risk_Category"}

ValidRow ==
    [CustomerID |-> "C1", LR_Prediction |-> "1", LR_Probability |-> "0.5",
     Actual_Churn |-> "0", Risk_Category |-> "High", XGB_Prediction |-> "0",
     XGB_Probability |-> "0.5", XGB_Risk_Category |-> "Low"]

\* The rows an input file is made of: a clean row, and rows with one cell
\* empty, non-numeric or out of range.
InputRows ==
    {ValidRow,
     [ValidRow EXCEPT !.CustomerID = ""],
     [ValidRow EXCEPT !.LR_Probability = "abc"],
     [ValidRow EXCEPT !.XGB_Probability = "1.5"],
     [ValidRow EXCEPT !.LR_Prediction = ""],
     [ValidRow EXCEPT !.Actual_Churn = "abc"]}

\* Headers: complete, or with one required column absent.
InputHeaders == {required_columns} \cup {required_columns \ {c} : c \in required_columns}

BatchSizes == (1..MaxBatchSize) \cup {DefaultBatchSize}

----------------------------------------------------------------------------
(* database.py *)

\* The try block returns nothing when the query succeeds (the function falls
\* off its end: None); the except block returns False.
test_connection_CustomerPredictions_db(queryOk) ==
    IF queryOk THEN "None" ELSE "False"

\* engine.connect() followed by the SELECT
QueryOk == reachable /\ readable

----------------------------------------------------------------------------
(* main.py: load_and_validate_csv *)

\* pd.read_csv on one cell: an empty field is NaN
read_cell(s) == IF s = "" THEN NaN ELSE <<s>>

\* variant: only the key column is looked for
missing_columns_only_key(columns) == {"CustomerID"} \ columns

missing_columns(columns) == required_columns \ columns

\* Series.astype(int) raises on NaN and on a string that is no integer literal
IntCastable(c) == c \in {<<"0">>, <<"1">>}

astype_int(c) == IF c = <<"0">> THEN <<0>> ELSE <<1>>

\* pd.to_numeric(errors='coerce'): tenths of the parsed number, NaN otherwise
to_numeric(c) ==
    CASE c = <<"0.5">> -> <<5>>
      [] c = <<"1.5">> -> <<15>>
      [] OTHER -> NaN

\* read_csv of data row k, with its index label
read_row(rows, k) ==
    [index |-> k - 1] @@ [c \in required_columns |-> read_cell(rows[k][c])]

int_columns == {"LR_Prediction", "XGB_Prediction", "Actual_Churn"}
numeric_columns == {"LR_Probability", "XGB_Probability"}

coerce_row(r) ==
    [c \in DOMAIN r |->
        IF c \in int_columns THEN astype_int(r[c])
        ELSE IF c \in numeric_columns THEN to_numeric(r[c])
        ELSE r[c]]

\* variant: the key column is left out of the subset
dropna_ignoring_key(frame) ==
    LET complete(r) == \A c \in required_columns \ {"CustomerID"} : r[c] # NaN
    IN  SelectSeq(frame, complete)

\* df.dropna(subset=required_columns)
dropna(frame) ==
    LET complete(r) == \A c \in required_columns : r[c] # NaN
    IN  SelectSeq(frame, complete)

out_of_range(r) ==
    \/ r.LR_Probability[1] < 0 \/ r.LR_Probability[1] > 10
    \/ r.XGB_Probability[1] < 0 \/ r.XGB_Probability[1] > 10

\* The whole function: the exception it raises ("none" when it returns), and
\* what it returns.
load_and_validate_csv(columns, rows) ==
    LET frame    == [k \in 1..Len(rows) |-> read_row(rows, k)]
        castable == \A k \in 1..Len(rows) : \A c \in int_columns : IntCastable(frame[k][c])
        coerced  == [k \in 1..Len(rows) |-> coerce_row(frame[k])]
        kept     == dropna(coerced)
    IN  IF missing_columns(columns) # {}
        THEN [error |-> "ValueError: Missing required columns", df |-> <<>>,
              removed |-> 0, prob_issues |-> 0]
        ELSE IF ~castable
        THEN [error |-> "ValueError: astype(int)", df |-> <<>>,
              removed |-> 0, prob_issues |-> 0]
        ELSE [error |-> "none", df |-> kept,
              removed |-> Len(coerced) - Len(kept),
              prob_issues |-> Cardinality({k \in 1..Len(kept) : out_of_range(kept[k])})]

----------------------------------------------------------------------------
(* main.py: insert_data_to_db *)

\* variant: the slice end is off by one
iloc_overlapping(n, start, size) == [lo |-> start + 1, hi |-> Min(start + size + 1, n)]

\* df_final.iloc[start:start+size], as the positions lo..hi of df_final
iloc(n, start, size) == [lo |-> start + 1, hi |-> Min(start + size, n)]

\* variant: the increment sits outside the try block
count_row_always(total, ok) == total + 1

\* total_inserted += 1 after the single-row to_sql; skipped when it raised
count_row(total, ok) == IF ok THEN total + 1 ELSE total

\* The rejections the store can answer an append with
Answers == IF reachable THEN BOOLEAN ELSE {FALSE}

Call(op, lo, hi, ok) == [op |-> op, lo |-> lo, hi |-> hi, ok |-> ok]

Labels(lo, hi) == [k \in 1..(hi - lo + 1) |-> df[lo + k - 1].index]

----------------------------------------------------------------------------
Init ==
    /\ \/ /\ csv_columns = required_columns
          /\ csv_rows \in SeqsUpTo(InputRows, MaxRows)
       \/ /\ csv_columns \in InputHeaders \ {required_columns}
          /\ csv_rows \in SeqsUpTo({ValidRow}, MaxRows)
    /\ batch_size \in BatchSizes
    /\ reachable \in BOOLEAN
    /\ readable \in BOOLEAN
    /\ reachable \/ ~readable
    /\ pc = "import"
    /\ testResult = "not called"
    /\ df = <<>>
    /\ removed = 0
    /\ prob_issues = 0
    /\ i = 0
    /\ j = 0
    /\ total_inserted = 0
    /\ errors = 0
    /\ calls = <<>>
    /\ stored = <<>>
    /\ raised = "none"
    /\ returned = <<>>
    /\ result = "None"

\* database.py line 108: the module runs the connection test when imported and
\* drops its result.
ImportDatabase ==
    /\ pc = "import"
    /\ pc' = "test"
    /\ calls' = Append(calls, Call("select", 0, 0, QueryOk))
    /\ UNCHANGED <<csv_columns, csv_rows, batch_size, reachable, readable, testResult,
                   df, removed, prob_issues, i, j, total_inserted, errors, stored,
                   raised, returned, result>>

\* main, step 1: the result of the test is not looked at.
TestConnection ==
    /\ pc = "test"
    /\ testResult' = test_connection_CustomerPredictions_db(QueryOk)
    /\ calls' = Append(calls, Call("select", 0, 0, QueryOk))
    /\ pc' = "load"
    /\ UNCHANGED <<csv_columns, csv_rows, batch_size, reachable, readable,
                   df, removed, prob_issues, i, j, total_inserted, errors, stored,
                   raised, returned, result>>

\* main, step 2; an exception of load_and_validate_csv is caught by main's
\* "except Exception", which returns False.
LoadAndValidate ==
    /\ pc = "load"
    /\ LET r == load_and_validate_csv(csv_columns, csv_rows)
       IN  IF r.error # "none"
           THEN /\ raised' = r.error
                /\ result' = "False"
                /\ pc' = "done"
                /\ UNCHANGED <<df, removed, prob_issues>>
           ELSE /\ df' = r.df
                /\ removed' = r.removed
                /\ prob_issues' = r.prob_issues
                /\ pc' = "batch"
                /\ UNCHANGED <<raised, result>>
    /\ UNCHANGED <<csv_columns, csv_rows, batch_size, reachable, readable, testResult,
                   i, j, total_inserted, errors, calls, stored, returned>>

\* One iteration of "for i in range(0, len(df_final), batch_size)" up to the
\* answer of the multi-row to_sql.
InsertBatch ==
    /\ pc = "batch"
    /\ i < Len(df)
    /\ LET batch == iloc(Len(df), i, batch_size)
           n     == batch.hi - batch.lo + 1
       IN  \E ok \in Answers :
             /\ calls' = Append(calls, Call("multi", batch.lo, batch.hi, ok))
             /\ IF ok
                THEN /\ stored' = stored \o Labels(batch.lo, batch.hi)
                     /\ total_inserted' = total_inserted + n
                     /\ i' = i + batch_size
                     /\ UNCHANGED <<errors, j, pc>>
                ELSE /\ errors' = errors + n
                     /\ j' = batch.lo
                     /\ pc' = "rows"
                     /\ UNCHANGED <<stored, total_inserted, i>>
    /\ UNCHANGED <<csv_columns, csv_rows, batch_size, reachable, readable, testResult,
                   df, removed, prob_issues, raised, returned, result>>

\* variant: the inner except block re-raises, so the first rejected row ends
\* the load in main's "except Exception".
InsertRowReraising ==
    /\ pc = "rows"
    /\ LET batch == iloc(Len(df), i, batch_size)
       IN  \E ok \in Answers :
             /\ calls' = Append(calls, Call("single", j, j, ok))
             /\ stored' = IF ok THEN Append(stored, df[j].index) ELSE stored
             /\ total_inserted' = count_row(total_inserted, ok)
             /\ IF ~ok
                THEN /\ raised' = "Exception: to_sql"
                     /\ result' = "False"
                     /\ pc' = "done"
                     /\ UNCHANGED <<i, j>>
                ELSE /\ UNCHANGED <<raised, result>>
                     /\ IF j < batch.hi
                        THEN /\ j' = j + 1
                             /\ UNCHANGED <<i, pc>>
                        ELSE /\ i' = i + batch_size
                             /\ pc' = "batch"
                             /\ UNCHANGED j
    /\ UNCHANGED <<csv_columns, csv_rows, batch_size, reachable, readable, testResult,
                   df, removed, prob_issues, errors, returned>>

\* One iteration of "for idx, row in batch.iterrows()" of the except block.
InsertRow ==
    /\ pc = "rows"
    /\ LET batch == iloc(Len(df), i, batch_size)
       IN  \E ok \in Answers :
             /\ calls' = Append(calls, Call("single", j, j, ok))
             /\ stored' = IF ok THEN Append(stored, df[j].index) ELSE stored
             /\ total_inserted' = count_row(total_inserted, ok)
             /\ IF j < batch.hi
                THEN /\ j' = j + 1
                     /\ UNCHANGED <<i, pc>>
                ELSE /\ i' = i + batch_size
                     /\ pc' = "batch"
                     /\ UNCHANGED j
    /\ UNCHANGED <<csv_columns, csv_rows, batch_size, reachable, readable, testResult,
                   df, removed, prob_issues, errors, raised, returned, result>>

\* The loop is exhausted: insert_data_to_db returns total_inserted and main
\* returns True.
ReturnInserted ==
    /\ pc = "batch"
    /\ i >= Len(df)
    /\ returned' = <<total_inserted>>
    /\ result' = "True"
    /\ pc' = "done"
    /\ UNCHANGED <<csv_columns, csv_rows, batch_size, reachable, readable, testResult,
                   df, removed, prob_issues, i, j, total_inserted, errors, calls,
                   stored, raised>>

\* main's "except KeyboardInterrupt": the operator interrupts the run.
Interrupt ==
    /\ pc \in {"test", "load", "batch", "rows"}
    /\ raised' = "KeyboardInterrupt"
    /\ result' = "False"
    /\ pc' = "done"
    /\ UNCHANGED <<csv_columns, csv_rows, batch_size, reachable, readable, testResult,
                   df, removed, prob_issues, i, j, total_inserted, errors, calls,
                   stored, returned>>

Next ==
    \/ ImportDatabase
    \/ TestConnection
    \/ LoadAndValidate
    \/ InsertBatch
    \/ InsertRow
    \/ ReturnInserted
    \/ Interrupt

Spec == Init /\ [][Next]_vars

----------------------------------------------------------------------------
(* Reading the history *)

Last(s) == s[Len(s)]

IsPrefix(s, t) == Len(s) <= Len(t) /\ SubSeq(t, 1, Len(s)) = s

IsAppend(c) == c.op \in {"multi", "single"}

\* The appends attempted so far, in order
Appends == SelectSeq(calls, IsAppend)

RejectedChunks == {p \in 1..Len(Appends) : Appends[p].op = "multi" /\ ~Appends[p].ok}

RejectedRows == {p \in 1..Len(Appends) : Appends[p].op = "single" /\ ~Appends[p].ok}

\* The rows of the chunk lo..hi that the store rejected on their individual retry
RejectedIn(lo, hi) == {p \in RejectedRows : lo <= Appends[p].lo /\ Appends[p].lo <= hi}

WriterReturned == returned # <<>>

ValidatorReturned == pc \in {"batch", "rows"} \/ WriterReturned

----------------------------------------------------------------------------
(* Claims *)

\* C1: when insert_data_to_db finishes, the inserted count plus the failed
\* count equals the number of records of the batch: every record is counted
\* exactly once, as inserted or as failed.
C1_InsertedPlusFailedIsLen ==
    WriterReturned => total_inserted + errors = Len(df)

\* C2: in a run where chunks were rejected and every rejected chunk has exactly
\* one record rejected on its individual retry, the failed count is the
\* number of those individual failures (one per rejected chunk) and all other
\* records are counted as inserted.
C2_FallbackIsolatesBadRow ==
    (/\ WriterReturned
     /\ RejectedChunks # {}
     /\ \A p \in RejectedChunks :
           Cardinality(RejectedIn(Appends[p].lo, Appends[p].hi)) = 1)
        => /\ errors = Cardinality(RejectedRows)
           /\ errors = Cardinality(RejectedChunks)
           /\ total_inserted = Len(df) - Cardinality(RejectedRows)

\* C3: when the store cannot be reached during the run, no append is
\* attempted and main reports failure (stated for the runs that have records
\* to write).
C3_UnreachableIsFatal ==
    (~reachable /\ Len(df) > 0) =>
        /\ Appends = <<>>
        /\ pc = "done" => result = "False"

\* C4: with all required columns present the validator does not fail: a
\* missing or non-coercible value in a required field only drops its record.
C4_RowIssuesAreRecoverable ==
    (missing_columns(csv_columns) = {} /\ pc \notin {"import", "test", "load"})
        => raised \in {"none", "KeyboardInterrupt"}

\* Raw cells that have a value after coercion
NumericLiterals == {"0.5", "1.5"}
IntegerLiterals == {"0", "1"}

NoNullAfterCoercion(raw) ==
    /\ raw.CustomerID # "" /\ raw.Risk_Category # "" /\ raw.XGB_Risk_Category # ""
    /\ raw.LR_Prediction \in IntegerLiterals
    /\ raw.XGB_Prediction \in IntegerLiterals
    /\ raw.Actual_Churn \in IntegerLiterals
    /\ raw.LR_Probability \in NumericLiterals
    /\ raw.XGB_Probability \in NumericLiterals

Survivors == {k \in 1..Len(csv_rows) : NoNullAfterCoercion(csv_rows[k])}

\* C5: when the validator returns, its output is exactly the input records
\* without a null in a required field after coercion, in their original
\* order (records with a probability outside [0,1] included), and the
\* dropped count is the number of the other records.
C5_OutputIsTheCompleteRecords ==
    ValidatorReturned =>
        /\ {df[p].index + 1 : p \in 1..Len(df)} = Survivors
        /\ \A p, q \in 1..Len(df) : p < q => df[p].index < df[q].index
        /\ \A p \in 1..Len(df) :
              /\ df[p].CustomerID = <<csv_rows[df[p].index + 1].CustomerID>>
              /\ df[p].XGB_Probability[1] > 10
                    <=> csv_rows[df[p].index + 1].XGB_Probability = "1.5"
        /\ removed = Len(csv_rows) - Cardinality(Survivors)

C5_Witness ==
    /\ ValidatorReturned
    /\ Len(csv_rows) = 4 /\ Len(df) = 3 /\ removed = 1
    /\ \E k \in 1..Len(csv_rows) : csv_rows[k].CustomerID = ""
    /\ \E p \in 1..Len(df) : df[p].XGB_Probability[1] > 10

\* C6: test_connection returns true when the query succeeded and false when
\* it failed.
C6_TestConnectionReturnsBool ==
    testResult # "not called" => testResult = (IF QueryOk THEN "True" ELSE "False")

\* C7: with a required column absent the validator fails with the
\* schema-mismatch error before any record is processed, nothing is appended
\* to the store, and the run reports failure.
C7_SchemaMismatchAborts ==
    required_columns \ csv_columns # {} =>
        /\ Appends = <<>> /\ stored = <<>>
        /\ df = <<>> /\ removed = 0
        /\ pc \notin {"batch", "rows"}
        /\ pc = "done" =>
              /\ result = "False"
              /\ raised \in {"ValueError: Missing required columns", "KeyboardInterrupt"}

C7_Witness ==
    /\ pc = "done"
    /\ raised = "ValueError: Missing required columns"
    /\ "LR_Probability" \notin csv_columns
    /\ Len(csv_rows) > 0 /\ reachable

\* C8: a rejected chunk or a rejected record never ends the load: after a
\* rejection by a reachable store the batch loop goes on with no exception
\* reaching main, and a run that no interrupt and no validation error ended
\* has gone through every chunk, returned from the writer and reports success.
C8_RejectionsNeverAbort ==
    [][reachable =>
        /\ (Len(calls') > Len(calls) /\ IsAppend(Last(calls')) /\ ~Last(calls').ok)
              => (pc' \in {"batch", "rows"} /\ raised' = "none" /\ result' = "None")
        /\ (pc' = "done" /\ raised' \notin {"KeyboardInterrupt",
                                            "ValueError: Missing required columns",
                                            "ValueError: astype(int)"})
              => /\ result' = "True"
                 /\ returned' = <<total_inserted'>>
                 /\ \A k \in 1..Len(df') :
                       \E c \in {calls'[p] : p \in 1..Len(calls')} :
                           c.op = "multi" /\ c.lo <= k /\ k <= c.hi]_vars

C8_Witness ==
    /\ pc = "done" /\ result = "True" /\ reachable
    /\ RejectedChunks # {} /\ RejectedRows # {}
    /\ \E p \in RejectedChunks : \E q \in (p + 1)..Len(Appends) :
          Appends[q].op = "multi" /\ Appends[q].ok

\* C9: the multi-row appends are the contiguous chunks of at most batch_size
\* records, in order and once each; single-row appends happen only in the
\* fallback of a chunk whose multi-row append was rejected, go through that
\* chunk in order, and are finished before the next chunk's append; at the
\* return every record lies in exactly one chunk.
C9_ChunksInOrderFallbackAfterRejection ==
    LET n == Len(df)
        ChunkEnd(k) == k = n \/ k % batch_size = 0
    IN  /\ \A p \in 1..Len(Appends) :
              LET c == Appends[p]
              IN  /\ 1 <= c.lo /\ c.lo <= c.hi /\ c.hi <= n
                  /\ c.op = "multi" =>
                        /\ (c.lo - 1) % batch_size = 0
                        /\ c.hi = Min(c.lo + batch_size - 1, n)
                        /\ IF p = 1 THEN c.lo = 1
                           ELSE /\ c.lo = Appends[p - 1].hi + 1
                                /\ ChunkEnd(Appends[p - 1].hi)
                                /\ Appends[p - 1].op = "multi" => Appends[p - 1].ok
                  /\ c.op = "single" =>
                        /\ p > 1
                        /\ \/ /\ Appends[p - 1].op = "multi"
                              /\ ~Appends[p - 1].ok
                              /\ c.lo = Appends[p - 1].lo
                           \/ /\ Appends[p - 1].op = "single"
                              /\ c.lo = Appends[p - 1].lo + 1
                              /\ ~ChunkEnd(Appends[p - 1].lo)
        /\ WriterReturned =>
              /\ \A k \in 1..n :
                    Cardinality({p \in 1..Len(Appends) :
                        Appends[p].op = "multi" /\ Appends[p].lo <= k /\ k <= Appends[p].hi}) = 1
              /\ \A p \in RejectedChunks :
                    \A k \in Appends[p].lo..Appends[p].hi :
                        \E q \in (p + 1)..Len(Appends) :
                            Appends[q].op = "single" /\ Appends[q].lo = k

C9_Witness ==
    /\ WriterReturned /\ batch_size = 2 /\ Len(df) = 4
    /\ \E p \in RejectedChunks : Appends[p].lo = 1
    /\ \E p \in 1..Len(Appends) :
          Appends[p].op = "multi" /\ Appends[p].ok /\ Appends[p].lo = 3

RECURSIVE AcceptedLabels(_)
\* The index labels the store accepted, read off the history
AcceptedLabels(s) ==
    IF s = <<>> THEN <<>>
    ELSE LET c == Last(s)
             before == AcceptedLabels(SubSeq(s, 1, Len(s) - 1))
         IN  IF c.ok THEN before \o [k \in 1..(c.hi - c.lo + 1) |-> df[c.lo + k - 1].index]
             ELSE before

C10_Counts ==
    /\ total_inserted = Len(stored)
    /\ stored = AcceptedLabels(Appends)
    /\ \A p, q \in 1..Len(stored) : p # q => stored[p] # stored[q]
    /\ WriterReturned => returned = <<Len(stored)>>

\* C10: at every point of a writer run the inserted count is the number of
\* records this run has appended to the store, no record is appended twice,
\* the stored rows only grow, and the returned value is the final count.
C10_InsertedCountIsStoredRows ==
    []C10_Counts /\ [][IsPrefix(stored, stored')]_vars

C10_Witness ==
    /\ WriterReturned /\ total_inserted >= 2
    /\ \E p \in RejectedChunks :
          /\ Appends[p].hi > Appends[p].lo
          /\ RejectedIn(Appends[p].lo, Appends[p].hi) # {}
          /\ \E q \in (p + 1)..Len(Appends) :
                Appends[q].op = "single" /\ Appends[q].ok /\ Appends[q].lo <= Appends[p].hi

====
